---- MODULE Spec2Model ----
(***************************************************************************)
(* Model of the urban-mobility ETL pipeline (src/etl/etl.py): column       *)
(* normalisation, feature derivation, row validation, vendor find-or-      *)
(* create, batched load of the trips table and the per-chunk cleaning log. *)
(*                                                                         *)
(* Number representation (floats of the source become scaled integers):    *)
(*   latitude / longitude   hundredths of a degree   (40.4 -> 4040)        *)
(*   timestamps, durations  seconds                                        *)
(*   distances              1/DistScale km           (4 km -> 400000)      *)
(*   fares                  1/FareScale dollar       (2.50 -> 1500000)     *)
(*   speeds                 a fraction <<num, den>> in km/h                *)
(* NaN / NaT / None of a numeric cell is the value NaN, float('inf') the   *)
(* value INF; the operators below test for them before any arithmetic,     *)
(* as the source does with pd.isna / isfinite.                             *)
(* Columns that no property below reads (tip_amount, passenger_count,      *)
(* fare_per_km, tip_pct, hour_of_day, day_of_week, zone ids) are left out. *)
(***************************************************************************)
EXTENDS Integers, Sequences, FiniteSets, TLC

VARIABLES run, vendors, trips, cleaning_log, audit, probe

vars == <<run, vendors, trips, cleaning_log, audit, probe>>

-----------------------------------------------------------------------------
(* Scales, sentinels and the constants of the source                       *)

DistScale == 100000
FareScale == 600000
NaN == -999999999
INF == 999999999

MIN_LAT == 4040
MAX_LAT == 4095
MIN_LON == -7435
MAX_LON == -7370

SpeedLimit == 200
MilesMeanLimit == 200
MilesMedianLimit == 30

\* vendor_code None (line 139) and the SQL NULL of trips.vendor_id
NoneCode == "<None>"
NullId == 0

SpeedNaN == <<0, 0>>
SpeedInf == <<1, 0>>

isna(x) == x = NaN

Max(a, b) == IF a >= b THEN a ELSE b

Min(a, b) == IF a <= b THEN a ELSE b

RECURSIVE SumSeq(_)
SumSeq(s) == IF s = <<>> THEN 0 ELSE Head(s) + SumSeq(Tail(s))

RECURSIVE SelectNotNa(_)
SelectNotNa(s) ==
    IF s = <<>> THEN <<>>
    ELSE IF isna(Head(s)) THEN SelectNotNa(Tail(s))
         ELSE <<Head(s)>> \o SelectNotNa(Tail(s))

RECURSIVE InsertSorted(_, _)
InsertSorted(x, s) ==
    IF s = <<>> THEN <<x>>
    ELSE IF x <= Head(s) THEN <<x>> \o s
         ELSE <<Head(s)>> \o InsertSorted(x, Tail(s))

RECURSIVE SortAsc(_)
SortAsc(s) == IF s = <<>> THEN <<>> ELSE InsertSorted(Head(s), SortAsc(Tail(s)))

-----------------------------------------------------------------------------
(* haversine_distance: the values of the source's formula (R = 6371 km)    *)
(* on the coordinates the model draws, in 1/DistScale km.                  *)

HaversineTable ==
    {
      <<4040, -7435, 4040, -7435, 0>>, <<4040, -7435, 4041, -7435, 111195>>, <<4040, -7435, 4095, -7370, 8212741>>, <<4040, -7435, 4039, -7435, 111195>>,
      <<4040, -7435, 4096, -7370, 8295602>>, <<4040, -7435, 4040, -7436, 84679>>, <<4040, -7435, 4095, -7369, 8269265>>,
      <<4041, -7435, 4040, -7435, 111195>>, <<4041, -7435, 4041, -7435, 0>>, <<4041, -7435, 4095, -7370, 8130001>>, <<4041, -7435, 4039, -7435, 222390>>,
      <<4041, -7435, 4096, -7370, 8212192>>, <<4041, -7435, 4040, -7436, 139763>>, <<4041, -7435, 4095, -7369, 8187088>>,
      <<4095, -7370, 4040, -7435, 8212741>>, <<4095, -7370, 4041, -7435, 8130001>>, <<4095, -7370, 4095, -7370, 0>>, <<4095, -7370, 4039, -7435, 8296146>>,
      <<4095, -7370, 4096, -7370, 111195>>, <<4095, -7370, 4040, -7436, 8269265>>, <<4095, -7370, 4095, -7369, 83984>>,
      <<4039, -7435, 4040, -7435, 111195>>, <<4039, -7435, 4041, -7435, 222390>>, <<4039, -7435, 4095, -7370, 8296146>>, <<4039, -7435, 4039, -7435, 0>>,
      <<4039, -7435, 4096, -7370, 8379658>>, <<4039, -7435, 4040, -7436, 139771>>, <<4039, -7435, 4095, -7369, 8352114>>,
      <<4096, -7370, 4040, -7435, 8295602>>, <<4096, -7370, 4041, -7435, 8212192>>, <<4096, -7370, 4095, -7370, 111195>>, <<4096, -7370, 4039, -7435, 8379658>>,
      <<4096, -7370, 4096, -7370, 0>>, <<4096, -7370, 4040, -7436, 8351557>>, <<4096, -7370, 4095, -7369, 139343>>,
      <<4040, -7436, 4040, -7435, 84679>>, <<4040, -7436, 4041, -7435, 139763>>, <<4040, -7436, 4095, -7370, 8269265>>, <<4040, -7436, 4039, -7435, 139771>>,
      <<4040, -7436, 4096, -7370, 8351557>>, <<4040, -7436, 4040, -7436, 0>>, <<4040, -7436, 4095, -7369, 8326260>>,
      <<4095, -7369, 4040, -7435, 8269265>>, <<4095, -7369, 4041, -7435, 8187088>>, <<4095, -7369, 4095, -7370, 83984>>, <<4095, -7369, 4039, -7435, 8352114>>,
      <<4095, -7369, 4096, -7370, 139343>>, <<4095, -7369, 4040, -7436, 8326260>>, <<4095, -7369, 4095, -7369, 0>>
    }

haversine_distance(lat1, lon1, lat2, lon2) ==
    IF isna(lat1) \/ isna(lon1) \/ isna(lat2) \/ isna(lon2) THEN NaN
    ELSE (CHOOSE t \in HaversineTable :
              t[1] = lat1 /\ t[2] = lon1 /\ t[3] = lat2 /\ t[4] = lon2)[5]

\* the bounding box with its edges excluded
is_valid_coordinate_exclusive(lat, lon) ==
    IF isna(lat) \/ isna(lon) THEN FALSE
    ELSE (MIN_LAT < lat /\ lat < MAX_LAT) /\ (MIN_LON < lon /\ lon < MAX_LON)

is_valid_coordinate(lat, lon) ==
    IF isna(lat) \/ isna(lon) THEN FALSE
    ELSE (MIN_LAT <= lat /\ lat <= MAX_LAT) /\ (MIN_LON <= lon /\ lon <= MAX_LON)

-----------------------------------------------------------------------------
(* detect_and_assign_columns.  A schema says which canonical columns the   *)
(* file's header binds; a raw row carries NaN in every unbound column.     *)

ColumnOf(chunk, f) == [i \in 1..Len(chunk) |-> chunk[i][f]]

AllNa(col) == \A i \in 1..Len(col) : isna(col[i])

\* s.mean() < 200 and s.median() < 30 on a non-empty series without NaN
MeanBelow(s, lim) ==
    /\ \A i \in 1..Len(s) : s[i] # INF
    /\ SumSeq(s) < lim * DistScale * Len(s)

MedianBelow(s, lim) ==
    LET n == Len(s)
        o == SortAsc(s)
    IN  IF n % 2 = 1 THEN o[(n + 1) \div 2] < lim * DistScale
        ELSE /\ o[(n \div 2) + 1] # INF
             /\ o[n \div 2] + o[(n \div 2) + 1] < 2 * lim * DistScale

\* x * 1.60934, rounded down to the distance unit
MilesToKm(x) ==
    IF isna(x) \/ x = INF THEN x
    ELSE LET q  == x \div DistScale
             r  == x % DistScale
             r1 == r \div 1000
             r0 == r % 1000
         IN  q * 160934 + r1 * 1609 + ((r1 * 34000 + r0 * 160934) \div DistScale)

LooksLikeMiles(schema, chunk) ==
    /\ schema.dist
    /\ LET s == SelectNotNa(ColumnOf(chunk, "trip_distance"))
       IN  Len(s) > 0 /\ MeanBelow(s, MilesMeanLimit) /\ MedianBelow(s, MilesMedianLimit)

\* df["vendor_id"].astype(str): a missing cell becomes the string "nan"
VendorCodeOf(schema, v) ==
    IF ~schema.vendor THEN NoneCode
    ELSE IF v = "" THEN "nan" ELSE v

\* the canonical columns of one row; miles says whether line 149 applies
NormalizeRow(schema, row, miles) ==
    [pickup_datetime       |-> row.pickup_datetime,
     dropoff_datetime      |-> row.dropoff_datetime,
     pickup_lat            |-> row.pickup_lat,
     pickup_lon            |-> row.pickup_lon,
     dropoff_lat           |-> row.dropoff_lat,
     dropoff_lon           |-> row.dropoff_lon,
     trip_distance_km      |-> IF miles THEN MilesToKm(row.trip_distance)
                               ELSE row.trip_distance,
     trip_duration_seconds |-> row.trip_duration,
     fare_amount           |-> row.fare_amount,
     vendor_code           |-> VendorCodeOf(schema, row.vendor_id)]

\* the unit test taken row by row, on the row's own value
detect_and_assign_columns_per_record(schema, chunk) ==
    [i \in 1..Len(chunk) |->
        NormalizeRow(schema, chunk[i], LooksLikeMiles(schema, <<chunk[i]>>))]

detect_and_assign_columns(schema, chunk) ==
    LET miles == LooksLikeMiles(schema, chunk)
    IN  [i \in 1..Len(chunk) |-> NormalizeRow(schema, chunk[i], miles)]

-----------------------------------------------------------------------------
(* clean_chunk, lines 182-221: the derived columns                         *)

TimestampDiff(dropoff, pickup) ==
    IF isna(dropoff) \/ isna(pickup) THEN NaN ELSE dropoff - pickup

\* 2.50 + km * 2.50 + (seconds / 60) * 0.40, clipped below at 2.50
EstimateFare(dist, td) ==
    IF isna(dist) \/ isna(td) THEN NaN
    ELSE IF dist = INF THEN INF
    ELSE Max((5 * FareScale) \div 2,
             ((5 * FareScale) \div 2) + 15 * dist + 4000 * td)

\* a guard that lets a duration of exactly 0 through to the division
compute_speed_zero_duration(td, dist) ==
    IF isna(td) \/ td < 0 \/ isna(dist) \/ dist <= 0 THEN SpeedNaN
    ELSE IF dist = INF \/ td = 0 THEN SpeedInf
    ELSE <<dist * 9, td * 250>>

compute_speed(td, dist) ==
    IF isna(td) \/ td <= 0 \/ isna(dist) \/ dist <= 0 THEN SpeedNaN
    ELSE IF dist = INF THEN SpeedInf
    ELSE <<dist * 9, td * 250>>

DerivedColumns(schema, chunk) ==
    LET d0    == detect_and_assign_columns(schema, chunk)
        n     == Len(d0)
        useTs == /\ schema.pickup /\ schema.dropoff
                 /\ (~schema.dur \/ AllNa(ColumnOf(d0, "trip_duration_seconds")))
        dur   == [i \in 1..n |->
                     IF schema.pickup /\ schema.dropoff
                     THEN IF useTs
                          THEN TimestampDiff(d0[i].dropoff_datetime, d0[i].pickup_datetime)
                          ELSE d0[i].trip_duration_seconds
                     ELSE NaN]
        useHv == ~schema.dist \/ AllNa(ColumnOf(d0, "trip_distance_km"))
        dist  == [i \in 1..n |->
                     IF useHv
                     THEN haversine_distance(d0[i].pickup_lat, d0[i].pickup_lon,
                                             d0[i].dropoff_lat, d0[i].dropoff_lon)
                     ELSE d0[i].trip_distance_km]
        useEst == ~schema.fare \/ AllNa(ColumnOf(d0, "fare_amount"))
        fare  == [i \in 1..n |->
                     IF useEst THEN EstimateFare(dist[i], dur[i])
                     ELSE d0[i].fare_amount]
    IN  [i \in 1..n |->
            [d0[i] EXCEPT !.trip_duration_seconds = dur[i],
                          !.trip_distance_km = dist[i],
                          !.fare_amount = fare[i]]
            @@ [trip_speed_kmh |-> compute_speed(dur[i], dist[i])]]

\* df["pickup_datetime"] at line 220 raises KeyError when no pickup column is bound
DeriveRaises(schema) == ~schema.pickup

-----------------------------------------------------------------------------
(* clean_chunk, lines 231-259: the validation rules                        *)

SpeedAbove(speed, lim) == speed[1] > lim * speed[2]

ReasonIf(cond, code) == IF cond THEN <<code>> ELSE <<>>

TimestampReasons(row) ==
    IF isna(row.pickup_datetime) \/ isna(row.dropoff_datetime)
    THEN <<"missing_timestamps">>
    ELSE ReasonIf(row.dropoff_datetime < row.pickup_datetime, "dropoff_before_pickup")

SpeedReasons(row) ==
    LET speed == row.trip_speed_kmh
    IN  ReasonIf(speed # SpeedNaN /\ speed # SpeedInf /\ SpeedAbove(speed, SpeedLimit),
                 "unrealistic_speed")

ValidateRow(row) ==
    TimestampReasons(row)
    \o ReasonIf(~is_valid_coordinate(row.pickup_lat, row.pickup_lon), "invalid_pickup_coord")
    \o ReasonIf(~is_valid_coordinate(row.dropoff_lat, row.dropoff_lon), "invalid_dropoff_coord")
    \o ReasonIf(isna(row.trip_distance_km) \/ row.trip_distance_km < 0, "invalid_distance")
    \o ReasonIf(isna(row.trip_duration_seconds) \/ row.trip_duration_seconds <= 0,
                "invalid_duration")
    \o ReasonIf(isna(row.fare_amount) \/ row.fare_amount < 0, "invalid_fare")
    \o SpeedReasons(row)

IsAccepted(reasons) == Len(reasons) = 0


-----------------------------------------------------------------------------
(* Inputs.  A raw row is one CSV record after read_csv / to_numeric /      *)
(* to_datetime; the empty string stands for a missing vendor cell.         *)

MaxRows == 3

SchemaAll    == [pickup |-> TRUE, dropoff |-> TRUE, dist |-> TRUE, dur |-> FALSE,
                 fare |-> TRUE, vendor |-> TRUE]
SchemaKaggle == [pickup |-> TRUE, dropoff |-> TRUE, dist |-> FALSE, dur |-> TRUE,
                 fare |-> FALSE, vendor |-> FALSE]
SchemaNoPickup == [pickup |-> FALSE, dropoff |-> TRUE, dist |-> TRUE, dur |-> FALSE,
                   fare |-> TRUE, vendor |-> TRUE]

Schemas == {SchemaAll, SchemaKaggle, SchemaNoPickup}

\* 10 minutes, about 1.1 km apart, 5 distance units on the meter, fare 12.00
GoodRow ==
    [pickup_datetime |-> 1000, dropoff_datetime |-> 1600,
     pickup_lat |-> 4040, pickup_lon |-> -7435,
     dropoff_lat |-> 4041, dropoff_lon |-> -7435,
     trip_distance |-> 5 * DistScale, trip_duration |-> 600,
     fare_amount |-> 12 * FareScale, vendor_id |-> "CMT"]

BaseRows ==
    { GoodRow,
      [GoodRow EXCEPT !.vendor_id = "VTS"],
      [GoodRow EXCEPT !.vendor_id = ""],
      [GoodRow EXCEPT !.dropoff_datetime = NaN],
      [GoodRow EXCEPT !.pickup_lat = 4039],
      [GoodRow EXCEPT !.dropoff_datetime = 1001, !.trip_duration = 1],
      [GoodRow EXCEPT !.dropoff_datetime = 400] }

\* the cells of a row under a header that binds only the schema's columns
Project(schema, row) ==
    [row EXCEPT !.pickup_datetime  = IF schema.pickup THEN @ ELSE NaN,
                !.dropoff_datetime = IF schema.dropoff THEN @ ELSE NaN,
                !.trip_distance    = IF schema.dist THEN @ ELSE NaN,
                !.trip_duration    = IF schema.dur THEN @ ELSE NaN,
                !.fare_amount      = IF schema.fare THEN @ ELSE NaN,
                !.vendor_id        = IF schema.vendor THEN @ ELSE ""]

Rows(schema) == { Project(schema, row) : row \in BaseRows }

ChunkSizes == {0, 1, 2, 3}
BatchSizes == {-1, 0, 1, 2}

Runs == {1, 2}

VendorCodes == {"CMT", "VTS", "nan"}

ArgsSet ==
    { [input |-> k, fileLen |-> 0, schema |-> SchemaAll, chunksize |-> 1, batch_size |-> 1] :
          k \in {"missing", "empty", "blank"} }
    \cup
    [input : {"ok"}, fileLen : 0..MaxRows, schema : Schemas,
     chunksize : ChunkSizes, batch_size : BatchSizes]

-----------------------------------------------------------------------------
(* State.                                                                  *)
(*   run[r]        the locals of main / clean_chunk / insert_trips_mysql   *)
(*                 of pipeline process r, and its position pc              *)
(*   vendors       the vendors table: vendors[id] is the vendor_code of    *)
(*                 the row with AUTO_INCREMENT key id                      *)
(*   trips         the committed rows of the trips table                   *)
(*   cleaning_log  data/logs/cleaning_log.csv                              *)
(*   audit[r]      what process r has asked of the store (statement        *)
(*                 counts per vendor code, ids handed out, the executemany *)
(*                 statements and the committed groups of the current call *)
(*                 of insert_trips_mysql), and the store and log as they   *)
(*                 were when the model starts                              *)
(*   probe         one chunk taken through the pure part of clean_chunk    *)

ZeroCount == [c \in VendorCodes |-> 0]

InitRun(a, on) ==
    [pc |-> IF on THEN "Idle" ELSE "Off", args |-> a,
     chunk_index |-> 0, total_in |-> 0, total_clean |-> 0, total_excluded |-> 0,
     chunk |-> <<>>, df |-> <<>>, rowi |-> 0, vendor_cache |-> {},
     clean_rows |-> <<>>, excluded_rows |-> <<>>,
     batch_i |-> 0, count |-> 0, inserted |-> 0, txn |-> {}, failure |-> ""]

InitAudit(v0, l0) ==
    [selects |-> ZeroCount, chunk_selects |-> ZeroCount,
     insert_attempts |-> ZeroCount, inserts |-> ZeroCount,
     resolved |-> [c \in VendorCodes |-> {}],
     connect_attempts |-> 0, connect_failed |-> FALSE,
     executes |-> 0, groups |-> <<>>,
     vendors0 |-> v0, log0 |-> l0]

ProbeOff == [stage |-> "off", schema |-> SchemaAll, chunk |-> <<>>, df |-> <<>>, out |-> <<>>]

\* the line an earlier run left in the cleaning log for a chunk without rejects
PriorLogRow == [chunk_index |-> 1, excluded_count |-> 0, sample_reason |-> <<>>]

InitStore ==
    /\ vendors \in {<<>>, <<"CMT">>}
    /\ trips = {}
    /\ cleaning_log \in {[exists |-> FALSE, rows |-> <<>>],
                         [exists |-> TRUE, rows |-> <<PriorLogRow>>]}

Init ==
    /\ InitStore
    /\ \E a \in ArgsSet : run = [r \in Runs |-> InitRun(a, r = 1)]
    /\ audit = [r \in Runs |-> InitAudit(vendors, cleaning_log)]
    /\ probe = ProbeOff

-----------------------------------------------------------------------------
(* main, lines 359-389: arguments, input file, connection, log header      *)

Set(r, rec) == run' = [run EXCEPT ![r] = rec]

\* sys.exit(1) with the connection closed: the open transaction is discarded
Fail(r, why) == Set(r, [run[r] EXCEPT !.pc = "Failed", !.failure = why, !.txn = {}])

Start(r) ==
    /\ run[r].pc = "Idle"
    /\ Set(r, [run[r] EXCEPT !.pc = "ValidatingInput"])
    /\ UNCHANGED <<vendors, trips, cleaning_log, audit, probe>>

\* a check for existence only
InputProblemMissingOnly(input) == IF input = "missing" THEN "input_missing" ELSE ""

InputProblem(input) ==
    IF input = "missing" THEN "input_missing"
    ELSE IF input = "empty" THEN "input_empty"
    ELSE ""

validate_input_file(r) ==
    /\ run[r].pc = "ValidatingInput"
    /\ IF InputProblem(run[r].args.input) # ""
       THEN Fail(r, InputProblem(run[r].args.input))
       ELSE Set(r, [run[r] EXCEPT !.pc = "ConnectingStore"])
    /\ UNCHANGED <<vendors, trips, cleaning_log, audit, probe>>

Connect(r) ==
    /\ run[r].pc = "ConnectingStore"
    /\ \/ /\ Set(r, [run[r] EXCEPT !.pc = "LogHeader"])
          /\ audit' = [audit EXCEPT ![r].connect_attempts = @ + 1]
       \/ /\ Fail(r, "connect")
          /\ audit' = [audit EXCEPT ![r].connect_attempts = @ + 1,
                                    ![r].connect_failed = TRUE]
    /\ UNCHANGED <<vendors, trips, cleaning_log, probe>>

EnsureLogHeader(r) ==
    /\ run[r].pc = "LogHeader"
    /\ cleaning_log' = [cleaning_log EXCEPT !.exists = TRUE]
    /\ Set(r, [run[r] EXCEPT !.pc = "Streaming"])
    /\ UNCHANGED <<vendors, trips, audit, probe>>

-----------------------------------------------------------------------------
(* main, lines 397-402: the chunk iterator, and clean_chunk up to line 228 *)

\* what pd.read_csv(input, chunksize=...) raises before any chunk is yielded
ReadProblem(args) ==
    IF args.chunksize <= 0 THEN "chunksize"
    ELSE IF args.input = "blank" THEN "empty_data"
    ELSE ""

\* rows of the next chunk; a header-only file yields one chunk of no rows
NextChunkLen(rr) == Min(rr.args.chunksize, rr.args.fileLen - rr.total_in)

HasNextChunk(rr) == rr.chunk_index = 0 \/ rr.total_in < rr.args.fileLen

ChunksOf(schema, n) == [1..n -> Rows(schema)]

ReadChunk(r) ==
    LET rr == run[r] IN
    /\ rr.pc = "Streaming"
    /\ IF ReadProblem(rr.args) # "" THEN Fail(r, ReadProblem(rr.args))
       ELSE /\ HasNextChunk(rr)
            /\ \E chunk \in ChunksOf(rr.args.schema, NextChunkLen(rr)) :
                  LET read == [rr EXCEPT !.chunk_index = @ + 1,
                                         !.total_in = @ + Len(chunk),
                                         !.chunk = chunk]
                  IN  IF DeriveRaises(rr.args.schema)
                      THEN Set(r, [read EXCEPT !.pc = "Failed", !.failure = "KeyError"])
                      ELSE Set(r, [read EXCEPT
                                      !.pc = "RowLoop",
                                      !.df = DerivedColumns(rr.args.schema, chunk),
                                      !.rowi = 1,
                                      !.vendor_cache = {},
                                      !.clean_rows = <<>>,
                                      !.excluded_rows = <<>>])
    /\ audit' = [audit EXCEPT ![r].chunk_selects = ZeroCount]
    /\ UNCHANGED <<vendors, trips, cleaning_log, probe>>

EndOfFile(r) ==
    LET rr == run[r] IN
    /\ rr.pc = "Streaming"
    /\ ReadProblem(rr.args) = ""
    /\ ~HasNextChunk(rr)
    /\ Set(r, [rr EXCEPT !.pc = "Reporting"])
    /\ UNCHANGED <<vendors, trips, cleaning_log, audit, probe>>

-----------------------------------------------------------------------------
(* clean_chunk, lines 230-293: the row loop, and get_or_create_vendor      *)

\* "if vendor_code" (line 264): None and the empty string are falsy
Truthy(code) == code # NoneCode /\ code # ""

InCache(cache, code) == \E e \in cache : e[1] = code

\* vendor_cache.get(vendor_code): None when the key is absent
CacheGet(cache, code) ==
    IF InCache(cache, code) THEN (CHOOSE e \in cache : e[1] = code)[2] ELSE NullId

\* a lookup for every row, cached or not
NeedsLookupAlways(cache, code) == Truthy(code)

NeedsLookup(cache, code) == Truthy(code) /\ ~InCache(cache, code)

\* a lookup that never matches
SelectVendorMiss(table, code) == {}

\* the vendor_ids a SELECT ... WHERE vendor_code = code returns
SelectVendor(table, code) == { id \in 1..Len(table) : table[id] = code }

\* the trip row appended in two places
AcceptAppendsTwice(rr, cache, id) ==
    [rr EXCEPT !.pc = "RowLoop",
               !.vendor_cache = cache,
               !.clean_rows = @ \o << [pos |-> rr.rowi, vendor_id |-> id],
                                      [pos |-> rr.rowi, vendor_id |-> id] >>,
               !.rowi = @ + 1]

\* append the trip row of df[rowi] and move to the next row
Accept(rr, cache, id) ==
    [rr EXCEPT !.pc = "RowLoop",
               !.vendor_cache = cache,
               !.clean_rows = Append(@, [pos |-> rr.rowi, vendor_id |-> id]),
               !.rowi = @ + 1]

Resolved(a, code, id) ==
    IF Truthy(code) THEN [a EXCEPT !.resolved[code] = @ \cup {id}] ELSE a

RowStep(r) ==
    LET rr      == run[r]
        row     == rr.df[rr.rowi]
        reasons == ValidateRow(row)
        code    == row.vendor_code
    IN
    /\ rr.pc = "RowLoop"
    /\ rr.rowi <= Len(rr.df)
    /\ IF ~IsAccepted(reasons)
       THEN /\ Set(r, [rr EXCEPT !.excluded_rows = Append(@, reasons), !.rowi = @ + 1])
            /\ UNCHANGED audit
       ELSE IF NeedsLookup(rr.vendor_cache, code)
       THEN /\ Set(r, [rr EXCEPT !.pc = "VendorSelect"])
            /\ UNCHANGED audit
       ELSE /\ Set(r, Accept(rr, rr.vendor_cache, CacheGet(rr.vendor_cache, code)))
            /\ audit' = [audit EXCEPT ![r] = Resolved(@, code, CacheGet(rr.vendor_cache, code))]
    /\ UNCHANGED <<vendors, trips, cleaning_log, probe>>

\* get_or_create_vendor, lines 159-166: the SELECT
VendorSelect(r) ==
    LET rr   == run[r]
        code == rr.df[rr.rowi].vendor_code
        hit  == SelectVendor(vendors, code)
    IN
    /\ rr.pc = "VendorSelect"
    /\ \/ /\ hit # {}
          /\ \E id \in hit :
                /\ Set(r, Accept(rr, rr.vendor_cache \cup {<<code, id>>}, id))
                /\ audit' = [audit EXCEPT
                                ![r] = Resolved([@ EXCEPT !.selects[code] = @ + 1,
                                                          !.chunk_selects[code] = @ + 1],
                                                code, id)]
       \/ /\ hit = {}
          /\ Set(r, [rr EXCEPT !.pc = "VendorInsert"])
          /\ audit' = [audit EXCEPT ![r].selects[code] = @ + 1,
                                    ![r].chunk_selects[code] = @ + 1]
       \/ /\ Fail(r, "vendor_select")
          /\ UNCHANGED audit
    /\ UNCHANGED <<vendors, trips, cleaning_log, probe>>

\* an INSERT guarded by a second look at the table
VendorInsertRechecked(r) ==
    LET rr   == run[r]
        code == rr.df[rr.rowi].vendor_code
        hit  == SelectVendor(vendors, code)
        id   == IF hit # {} THEN CHOOSE i \in hit : TRUE ELSE Len(vendors) + 1
    IN
    /\ rr.pc = "VendorInsert"
    /\ vendors' = IF hit # {} THEN vendors ELSE Append(vendors, code)
    /\ Set(r, Accept(rr, rr.vendor_cache \cup {<<code, id>>}, id))
    /\ audit' = [audit EXCEPT
                    ![r] = Resolved(IF hit # {} THEN @
                                    ELSE [@ EXCEPT !.insert_attempts[code] = @ + 1,
                                                   !.inserts[code] = @ + 1],
                                    code, id)]
    /\ UNCHANGED <<trips, cleaning_log, probe>>

\* get_or_create_vendor, lines 167-174: INSERT, commit, lastrowid.  The INSERT
\* can be refused (store error, or a unique key on vendor_code where the schema
\* has one); where it is not, a second row for the same code is stored.
VendorInsert(r) ==
    LET rr   == run[r]
        code == rr.df[rr.rowi].vendor_code
        id   == Len(vendors) + 1
    IN
    /\ rr.pc = "VendorInsert"
    /\ \/ /\ vendors' = Append(vendors, code)
          /\ Set(r, Accept(rr, rr.vendor_cache \cup {<<code, id>>}, id))
          /\ audit' = [audit EXCEPT
                          ![r] = Resolved([@ EXCEPT !.insert_attempts[code] = @ + 1,
                                                    !.inserts[code] = @ + 1],
                                          code, id)]
       \/ /\ Fail(r, "vendor_insert")
          /\ audit' = [audit EXCEPT ![r].insert_attempts[code] = @ + 1]
          /\ UNCHANGED vendors
    /\ UNCHANGED <<trips, cleaning_log, probe>>

-----------------------------------------------------------------------------
(* insert_trips_mysql                                                      *)

\* the offsets range(0, n, step) yields are empty for a negative step;
\* a step of 0 raises ValueError
RangeRaises(step) == step = 0

RangeEmpty(n, step) == step < 0 \/ n <= 0

TripRow(r, rr, row) ==
    [run |-> r, chunk |-> rr.chunk_index, pos |-> row.pos, vendor_id |-> row.vendor_id]

\* a group that loses its last row
BatchShort(rr) ==
    SubSeq(rr.clean_rows, rr.batch_i + 1,
           Min(rr.batch_i + rr.args.batch_size, Len(rr.clean_rows)) - 1)

Batch(rr) ==
    SubSeq(rr.clean_rows, rr.batch_i + 1,
           Min(rr.batch_i + rr.args.batch_size, Len(rr.clean_rows)))

BeginInsert(r) ==
    LET rr == run[r]
        n  == Len(rr.clean_rows)
    IN
    /\ rr.pc = "RowLoop"
    /\ rr.rowi > Len(rr.df)
    /\ IF n = 0 THEN Set(r, [rr EXCEPT !.pc = "LogAppend", !.inserted = 0])
       ELSE IF RangeRaises(rr.args.batch_size) THEN Fail(r, "batch_size")
       ELSE IF RangeEmpty(n, rr.args.batch_size)
            THEN Set(r, [rr EXCEPT !.pc = "LogAppend", !.inserted = 0, !.count = 0])
       ELSE Set(r, [rr EXCEPT !.pc = "ExecuteMany", !.batch_i = 0, !.count = 0])
    /\ audit' = [audit EXCEPT ![r].executes = 0, ![r].groups = <<>>]
    /\ UNCHANGED <<vendors, trips, cleaning_log, probe>>

\* a connection in autocommit mode: the rows sent before the error stay
ExecuteManyAutocommit(r) ==
    LET rr    == run[r]
        batch == Batch(rr)
    IN
    /\ rr.pc = "ExecuteMany"
    /\ \/ /\ Set(r, [rr EXCEPT !.pc = "Commit",
                               !.txn = @ \cup { TripRow(r, rr, batch[i]) : i \in 1..Len(batch) }])
          /\ audit' = [audit EXCEPT ![r].executes = @ + 1]
          /\ UNCHANGED trips
       \/ /\ Fail(r, "executemany")
          /\ trips' = trips \cup {TripRow(r, rr, batch[1])}
          /\ UNCHANGED audit
    /\ UNCHANGED <<vendors, cleaning_log, probe>>

ExecuteMany(r) ==
    LET rr    == run[r]
        batch == Batch(rr)
    IN
    /\ rr.pc = "ExecuteMany"
    /\ \/ /\ Set(r, [rr EXCEPT !.pc = "Commit",
                               !.txn = @ \cup { TripRow(r, rr, batch[i]) : i \in 1..Len(batch) }])
          /\ audit' = [audit EXCEPT ![r].executes = @ + 1]
       \/ /\ Fail(r, "executemany")
          /\ UNCHANGED audit
    /\ UNCHANGED <<vendors, trips, cleaning_log, probe>>

\* a step one short of the group size, so that groups overlap
NextOffsetOverlap(rr) == rr.batch_i + Max(1, rr.args.batch_size - 1)

\* the next value of i in range(0, len(rows), batch_size)
NextOffset(rr) == rr.batch_i + rr.args.batch_size

\* a load that returns with its last group sent but not committed
CommitGroupLazy(r) ==
    LET rr   == run[r]
        next == NextOffset(rr)
        cnt  == rr.count + Len(Batch(rr))
        rows == [i \in 1..Len(Batch(rr)) |-> TripRow(r, rr, Batch(rr)[i])]
    IN
    /\ rr.pc = "Commit"
    /\ audit' = [audit EXCEPT ![r].groups = Append(@, rows)]
    /\ IF next < Len(rr.clean_rows)
       THEN /\ trips' = trips \cup rr.txn
            /\ Set(r, [rr EXCEPT !.pc = "ExecuteMany", !.txn = {},
                                  !.batch_i = next, !.count = cnt])
       ELSE /\ trips' = trips
            /\ Set(r, [rr EXCEPT !.pc = "LogAppend",
                                  !.batch_i = next, !.count = cnt, !.inserted = cnt])
    /\ UNCHANGED <<vendors, cleaning_log, probe>>

CommitGroup(r) ==
    LET rr   == run[r]
        next == NextOffset(rr)
        cnt  == rr.count + Len(Batch(rr))
        rows == [i \in 1..Len(Batch(rr)) |-> TripRow(r, rr, Batch(rr)[i])]
    IN
    /\ rr.pc = "Commit"
    /\ \/ /\ trips' = trips \cup rr.txn
          /\ audit' = [audit EXCEPT ![r].groups = Append(@, rows)]
          /\ IF next < Len(rr.clean_rows)
             THEN Set(r, [rr EXCEPT !.pc = "ExecuteMany", !.txn = {},
                                    !.batch_i = next, !.count = cnt])
             ELSE Set(r, [rr EXCEPT !.pc = "LogAppend", !.txn = {},
                                    !.batch_i = next, !.count = cnt, !.inserted = cnt])
       \/ /\ Fail(r, "commit")
          /\ UNCHANGED <<trips, audit>>
    /\ UNCHANGED <<vendors, cleaning_log, probe>>

-----------------------------------------------------------------------------
(* main, lines 405-435: totals, cleaning log, report                       *)

\* the reasons of the last rejected row
SampleReasonLast(excluded) == IF excluded = <<>> THEN <<>> ELSE excluded[Len(excluded)]

\* excluded_rows[0]["reasons"], kept as the list of codes that ";" joins
SampleReason(excluded) == IF excluded = <<>> THEN <<>> ELSE excluded[1]

\* the locals of the finished chunk are dead once its log line is written
AppendLog(r) ==
    LET rr == run[r] IN
    /\ rr.pc = "LogAppend"
    /\ cleaning_log' =
          [exists |-> TRUE,
           rows   |-> Append(cleaning_log.rows,
                             [chunk_index    |-> rr.chunk_index,
                              excluded_count |-> Len(rr.excluded_rows),
                              sample_reason  |-> SampleReason(rr.excluded_rows)])]
    /\ Set(r, [rr EXCEPT !.pc = "Streaming",
                         !.total_clean = @ + rr.inserted,
                         !.total_excluded = @ + Len(rr.excluded_rows),
                         !.chunk = <<>>, !.df = <<>>, !.rowi = 0, !.vendor_cache = {},
                         !.clean_rows = <<>>, !.excluded_rows = <<>>,
                         !.batch_i = 0, !.count = 0, !.inserted = 0])
    /\ UNCHANGED <<vendors, trips, audit, probe>>

\* total_clean / total_in at line 433 raises ZeroDivisionError when no row was read
Report(r) ==
    LET rr == run[r] IN
    /\ rr.pc = "Reporting"
    /\ IF rr.total_in = 0 THEN Fail(r, "ZeroDivisionError")
       ELSE Set(r, [rr EXCEPT !.pc = "Closed"])
    /\ UNCHANGED <<vendors, trips, cleaning_log, audit, probe>>

-----------------------------------------------------------------------------
(* Specifications                                                          *)

Step(r) ==
    \/ Start(r)
    \/ validate_input_file(r)
    \/ Connect(r)
    \/ EnsureLogHeader(r)
    \/ ReadChunk(r)
    \/ EndOfFile(r)
    \/ RowStep(r)
    \/ VendorSelect(r)
    \/ VendorInsert(r)
    \/ BeginInsert(r)
    \/ ExecuteMany(r)
    \/ CommitGroup(r)
    \/ AppendLog(r)
    \/ Report(r)

\* one pipeline run, alone on the store
Next == Step(1)

Spec == Init /\ [][Next]_vars


\* two pipeline runs on the same store, one short file each
ConcurrentArgs ==
    [input |-> "ok", fileLen |-> 1, schema |-> SchemaAll, chunksize |-> 1, batch_size |-> 1]

InitConcurrent ==
    /\ InitStore
    /\ run = [r \in Runs |-> InitRun(ConcurrentArgs, TRUE)]
    /\ audit = [r \in Runs |-> InitAudit(vendors, cleaning_log)]
    /\ probe = ProbeOff

NextConcurrent == \E r \in Runs : Step(r)

SpecConcurrent == InitConcurrent /\ [][NextConcurrent]_vars

-----------------------------------------------------------------------------
(* The pure part of clean_chunk on one-row chunks drawn field by field     *)

ProbePoints ==
    { <<4040, -7435>>, <<4041, -7435>>, <<4095, -7370>>, <<4039, -7435>>,
      <<4096, -7370>>, <<4040, -7436>>, <<4095, -7369>>, <<NaN, -7435>>, <<4040, NaN>> }

ProbeDropoffs == { <<4041, -7435>>, <<4095, -7370>>, <<4096, -7370>>, <<NaN, -7435>> }

SchemaEvery == [pickup |-> TRUE, dropoff |-> TRUE, dist |-> TRUE, dur |-> TRUE,
                fare |-> TRUE, vendor |-> TRUE]

ProbeSchemas == {SchemaAll, SchemaKaggle, SchemaEvery}

ProbeRows ==
    { [pickup_datetime |-> pu, dropoff_datetime |-> do,
       pickup_lat |-> p[1], pickup_lon |-> p[2],
       dropoff_lat |-> d[1], dropoff_lon |-> d[2],
       trip_distance |-> dist, trip_duration |-> dur,
       fare_amount |-> fare, vendor_id |-> "CMT"] :
         pu \in {NaN, 1000}, do \in {NaN, 400, 1000, 1001, 1600},
         p \in ProbePoints, d \in ProbeDropoffs,
         dist \in {NaN, -DistScale, 0, 5 * DistScale, 300 * DistScale, INF},
         dur \in {NaN, 600},
         fare \in {NaN, -FareScale, 0, 12 * FareScale} }

InitValidate ==
    /\ vendors = <<>>
    /\ trips = {}
    /\ cleaning_log = [exists |-> FALSE, rows |-> <<>>]
    /\ run = [r \in Runs |-> InitRun(ConcurrentArgs, FALSE)]
    /\ audit = [r \in Runs |-> InitAudit(vendors, cleaning_log)]
    /\ \E schema \in ProbeSchemas : \E row \in ProbeRows :
          probe = [ProbeOff EXCEPT !.stage = "raw", !.schema = schema,
                                   !.chunk = <<Project(schema, row)>>]

ProbeDerive ==
    /\ probe.stage = "raw"
    /\ probe' = [probe EXCEPT !.stage = "derived",
                              !.df = DerivedColumns(probe.schema, probe.chunk)]
    /\ UNCHANGED <<run, vendors, trips, cleaning_log, audit>>

ProbeValidate ==
    /\ probe.stage = "derived"
    /\ probe' = [probe EXCEPT
                    !.stage = "validated",
                    !.out = [i \in 1..Len(probe.df) |->
                                [reasons  |-> ValidateRow(probe.df[i]),
                                 accepted |-> IsAccepted(ValidateRow(probe.df[i]))]]]
    /\ UNCHANGED <<run, vendors, trips, cleaning_log, audit>>

NextValidate == ProbeDerive \/ ProbeValidate

SpecValidate == InitValidate /\ [][NextValidate]_vars


-----------------------------------------------------------------------------
(* The pure part of clean_chunk on whole chunks of up to MaxRows rows      *)

\* rows that differ from GoodRow in the cells the derived columns read
ChunkRows ==
    { GoodRow,
      [GoodRow EXCEPT !.trip_distance = NaN],
      [GoodRow EXCEPT !.trip_distance = NaN, !.dropoff_lat = NaN],
      [GoodRow EXCEPT !.trip_distance = DistScale \div 10],
      [GoodRow EXCEPT !.trip_distance = 40 * DistScale],
      [GoodRow EXCEPT !.trip_distance = 500 * DistScale],
      [GoodRow EXCEPT !.trip_distance = 900 * DistScale],
      [GoodRow EXCEPT !.fare_amount = NaN],
      [GoodRow EXCEPT !.fare_amount = NaN, !.trip_distance = NaN, !.pickup_lon = NaN],
      [GoodRow EXCEPT !.dropoff_datetime = NaN, !.trip_duration = NaN, !.fare_amount = NaN],
      [GoodRow EXCEPT !.dropoff_datetime = 1000, !.trip_duration = 0] }

ProbeChunks(schema) ==
    UNION { [1..n -> { Project(schema, row) : row \in ChunkRows }] : n \in 1..MaxRows }

InitChunk ==
    /\ vendors = <<>>
    /\ trips = {}
    /\ cleaning_log = [exists |-> FALSE, rows |-> <<>>]
    /\ run = [r \in Runs |-> InitRun(ConcurrentArgs, FALSE)]
    /\ audit = [r \in Runs |-> InitAudit(vendors, cleaning_log)]
    /\ \E schema \in ProbeSchemas : \E chunk \in ProbeChunks(schema) :
          probe = [ProbeOff EXCEPT !.stage = "raw", !.schema = schema, !.chunk = chunk]

SpecChunk == InitChunk /\ [][NextValidate]_vars

-----------------------------------------------------------------------------
(* Properties                                                              *)

ToSet(s) == { s[i] : i \in 1..Len(s) }

InBox(lat, lon) ==
    /\ ~isna(lat) /\ ~isna(lon)
    /\ lat >= MIN_LAT /\ lat <= MAX_LAT /\ lon >= MIN_LON /\ lon <= MAX_LON

SpeedDefined(row) == row.trip_speed_kmh # SpeedNaN

SpeedFinite(row) == row.trip_speed_kmh # SpeedNaN /\ row.trip_speed_kmh # SpeedInf

\* the rules a derived record violates, the speed rule given as a parameter
Violations(row, tooFast) ==
    { code \in { "missing_timestamps", "dropoff_before_pickup", "invalid_pickup_coord",
                 "invalid_dropoff_coord", "invalid_distance", "invalid_duration",
                 "invalid_fare", "unrealistic_speed" } :
        \/ /\ code = "missing_timestamps"
           /\ (isna(row.pickup_datetime) \/ isna(row.dropoff_datetime))
        \/ /\ code = "dropoff_before_pickup"
           /\ ~isna(row.pickup_datetime) /\ ~isna(row.dropoff_datetime)
           /\ row.dropoff_datetime < row.pickup_datetime
        \/ /\ code = "invalid_pickup_coord"
           /\ ~InBox(row.pickup_lat, row.pickup_lon)
        \/ /\ code = "invalid_dropoff_coord"
           /\ ~InBox(row.dropoff_lat, row.dropoff_lon)
        \/ /\ code = "invalid_distance"
           /\ (isna(row.trip_distance_km) \/ row.trip_distance_km < 0)
        \/ /\ code = "invalid_duration"
           /\ (isna(row.trip_duration_seconds) \/ row.trip_duration_seconds <= 0)
        \/ /\ code = "invalid_fare"
           /\ (isna(row.fare_amount) \/ row.fare_amount < 0)
        \/ /\ code = "unrealistic_speed"
           /\ tooFast }

ReasonsMatch(tooFast(_)) ==
    probe.stage = "validated" =>
        \A i \in 1..Len(probe.df) :
            /\ ToSet(probe.out[i].reasons) = Violations(probe.df[i], tooFast(probe.df[i]))
            /\ Len(probe.out[i].reasons) = Cardinality(ToSet(probe.out[i].reasons))
            /\ probe.out[i].accepted <=> (Violations(probe.df[i], tooFast(probe.df[i])) = {})

TooFastIfDefined(row) == SpeedDefined(row) /\ SpeedAbove(row.trip_speed_kmh, SpeedLimit)

TooFastIfFinite(row) == SpeedFinite(row) /\ SpeedAbove(row.trip_speed_kmh, SpeedLimit)

\* C1 as stated: the reason list of every validated record is exactly the set of
\* rules it violates, unrealistic_speed being "speed defined and > 200", and the
\* record is accepted iff that set is empty.
C1_ReasonsAreViolatedRules == ReasonsMatch(TooFastIfDefined)

\* C1 amended: the same with unrealistic_speed being "speed defined, finite and
\* > 200": a record whose speed is infinite does not carry the reason.
C1_ReasonsAreViolatedRulesFiniteSpeed == ReasonsMatch(TooFastIfFinite)

\* a record rejected for three rules at once, its dropoff on the edge of the box
C1_Witness ==
    /\ probe.stage = "validated"
    /\ Len(probe.out[1].reasons) >= 3
    /\ "unrealistic_speed" \in ToSet(probe.out[1].reasons)
    /\ probe.df[1].dropoff_lat = MAX_LAT /\ probe.df[1].dropoff_lon = MAX_LON
    /\ "invalid_dropoff_coord" \notin ToSet(probe.out[1].reasons)


-----------------------------------------------------------------------------
\* the row loop of the current chunk is over (insert_trips_mysql may be running)
LoopDone(rr) ==
    /\ rr.pc \in {"RowLoop", "ExecuteMany", "Commit", "LogAppend"}
    /\ rr.rowi > Len(rr.df)

\* insert_trips_mysql has returned for the current chunk
Loaded(rr) == rr.pc = "LogAppend"

WellFormed(row) ==
    /\ InBox(row.pickup_lat, row.pickup_lon)
    /\ InBox(row.dropoff_lat, row.dropoff_lon)
    /\ ~isna(row.trip_duration_seconds) /\ row.trip_duration_seconds > 0
    /\ ~isna(row.trip_distance_km) /\ row.trip_distance_km > 0
    /\ ~isna(row.fare_amount) /\ row.fare_amount >= 0
    /\ ~isna(row.pickup_datetime) /\ ~isna(row.dropoff_datetime)

InOrderAndSlow(row) ==
    /\ row.dropoff_datetime >= row.pickup_datetime
    /\ ~TooFastIfFinite(row)

AllRows(rr, P(_)) == \A i \in 1..Len(rr.df) : P(rr.df[i])

WellFormedPlus(row) == WellFormed(row) /\ InOrderAndSlow(row)

\* C2 as stated: a chunk whose rows are all well-formed (coordinates in the box,
\* duration > 0, distance > 0, fare >= 0, timestamps defined) has no rejected row
\* and its insert count is its row count.
C2_WellFormedChunkFullyLoaded ==
    \A r \in Runs :
        (LoopDone(run[r]) /\ AllRows(run[r], WellFormed)) =>
            /\ run[r].excluded_rows = <<>>
            /\ (Loaded(run[r]) /\ run[r].args.batch_size >= 1) =>
                   run[r].inserted = Len(run[r].df)

\* C2 amended: the same for chunks whose rows are moreover not faster than 200 km/h
\* and do not end before they start, loaded with a batch size >= 1.
C2_WellFormedSlowChunkFullyLoaded ==
    \A r \in Runs :
        (LoopDone(run[r]) /\ AllRows(run[r], WellFormedPlus)) =>
            /\ run[r].excluded_rows = <<>>
            /\ (Loaded(run[r]) /\ run[r].args.batch_size >= 1) =>
                   run[r].inserted = Len(run[r].df)

\* a two-row chunk of such rows, loaded in two groups
C2_Witness ==
    /\ Loaded(run[1])
    /\ Len(run[1].df) = 2
    /\ AllRows(run[1], WellFormedPlus)
    /\ run[1].args.batch_size = 1
    /\ run[1].inserted = 2

-----------------------------------------------------------------------------
MyTrips(r) == { t \in trips : t.run = r }

\* failures that do not come from the content of a row
NotTheRowsFault == {"", "input_missing", "input_empty", "connect", "chunksize", "empty_data",
                    "batch_size", "vendor_select", "vendor_insert", "executemany", "commit",
                    "ZeroDivisionError"}

HasBadRow(rr) ==
    \E i \in 1..Len(rr.chunk) :
        ~IsAccepted(ValidateRow(DerivedColumns(rr.args.schema, rr.chunk)[i]))

\* C3: a row that violates a rule is only set aside: it is never in the trips
\* table, the accepted rows of its chunk are loaded, and the run does not fail
\* because of it.
C3_RejectedRowsRecoveredLocally ==
    \A r \in Runs :
        LET rr == run[r] IN
        /\ \A t \in MyTrips(r) \cup rr.txn :
               t.chunk = rr.chunk_index /\ rr.df # <<>> =>
                   IsAccepted(ValidateRow(rr.df[t.pos]))
        /\ (Loaded(rr) /\ rr.args.batch_size >= 1) =>
               \A i \in 1..Len(rr.df) :
                   IsAccepted(ValidateRow(rr.df[i])) =>
                       \E t \in MyTrips(r) : t.chunk = rr.chunk_index /\ t.pos = i
        /\ (rr.pc = "Failed" /\ HasBadRow(rr)) => rr.failure \in NotTheRowsFault


-----------------------------------------------------------------------------
Range(s) == { s[i] : i \in 1..Len(s) }

\* C4: alone on the store, every resolution of one vendor code in a run gives
\* the same id, and the run inserts the code once if the store did not hold it
\* at the start, never if it did, however many rows and chunks carry it.
C4_OneIdOneInsertPerCode ==
    \A c \in VendorCodes :
        LET a == audit[1] IN
        /\ Cardinality(a.resolved[c]) <= 1
        /\ a.inserts[c] <= a.insert_attempts[c] /\ a.insert_attempts[c] <= 1
        /\ c \in Range(a.vendors0) => a.insert_attempts[c] = 0
        /\ (a.resolved[c] # {} /\ c \notin Range(a.vendors0)) => a.inserts[c] = 1
        /\ \A id \in a.resolved[c] : id \in 1..Len(vendors) /\ vendors[id] = c

\* a new code resolved in two chunks: looked up twice, inserted once
C4_Witness ==
    \E c \in VendorCodes :
        /\ c \notin Range(audit[1].vendors0)
        /\ audit[1].selects[c] = 2
        /\ audit[1].inserts[c] = 1
        /\ run[1].chunk_index = 2
        /\ \E k \in 1..Len(run[1].clean_rows) : run[1].clean_rows[k].vendor_id = Len(vendors)

-----------------------------------------------------------------------------
-----------------------------------------------------------------------------
\* C6: an accepted row without a vendor value (no vendor column, or an empty
\* cell) gets the vendor_id NULL, and the vendors table is neither read nor
\* written for it.
C6_MissingVendorTouchesNothing ==
    \A r \in Runs :
        LET rr == run[r] IN
        /\ rr.pc \in {"VendorSelect", "VendorInsert"} => rr.chunk[rr.rowi].vendor_id # ""
        /\ \A k \in 1..Len(rr.clean_rows) :
               rr.chunk[rr.clean_rows[k].pos].vendor_id = "" =>
                   rr.clean_rows[k].vendor_id = NullId

-----------------------------------------------------------------------------
CodeInHand(rr) == rr.df[rr.rowi].vendor_code

\* C7: nothing stands between the SELECT that found no row and the INSERT: a
\* run that has missed takes no other step than to issue its INSERT, whatever
\* the table holds by then, so two runs that have both missed both insert.
C7_InsertFollowsMissUnconditionally ==
    [][\A r \in Runs :
          (run[r].pc = "VendorInsert" /\ run'[r] # run[r]) =>
              audit'[r].insert_attempts[CodeInHand(run[r])]
                  = audit[r].insert_attempts[CodeInHand(run[r])] + 1]_vars

\* both runs have looked the same new code up and found nothing; one of them
\* has already inserted it while the other is about to
C7_Witness ==
    /\ run[1].pc = "VendorInsert"
    /\ run[2].pc = "Closed"
    /\ audit[2].inserts[CodeInHand(run[1])] = 1
    /\ audit[1].selects[CodeInHand(run[1])] = 1
    /\ CodeInHand(run[1]) \in Range(vendors)
    /\ CodeInHand(run[1]) \notin Range(audit[1].vendors0)

-----------------------------------------------------------------------------
InsertFailed(rr) == rr.pc = "Failed" /\ rr.failure \in {"executemany", "commit"}

\* C8: when the insert of a group fails the run is Failed for good, the groups
\* before it, the rows of earlier chunks and the vendors created stay in the
\* store, and no row of the failed group or of a later one is in the store.
C8_FailedGroupKeepsEarlierWork ==
    /\ [](\A r \in {1} :
            LET rr == run[r] IN
            InsertFailed(rr) =>
                /\ { t \in MyTrips(r) : t.chunk = rr.chunk_index }
                      = { TripRow(r, rr, rr.clean_rows[k]) : k \in 1..rr.batch_i }
                /\ Cardinality({ t \in MyTrips(r) : t.chunk < rr.chunk_index }) = rr.total_clean
                /\ \A t \in MyTrips(r) : t.chunk <= rr.chunk_index
                /\ \A c \in VendorCodes : audit[r].inserts[c] >= 1 => c \in Range(vendors))
    /\ [][/\ trips \subseteq trips'
          /\ Len(vendors) <= Len(vendors') /\ SubSeq(vendors', 1, Len(vendors)) = vendors
          /\ run[1].pc = "Failed" => run'[1] = run[1]]_vars

\* the second group of a chunk fails after the first was committed and after
\* the run created a vendor
C8_Witness ==
    /\ InsertFailed(run[1])
    /\ run[1].batch_i >= 1
    /\ Cardinality(MyTrips(1)) = 1
    /\ Len(run[1].clean_rows) >= 2
    /\ \E c \in VendorCodes : audit[1].inserts[c] = 1

-----------------------------------------------------------------------------
Untouched(r) ==
    /\ run[r].chunk_index = 0
    /\ vendors = audit[r].vendors0
    /\ trips = {}
    /\ cleaning_log = audit[r].log0

\* C9: a missing or empty input file, or a connection that cannot be opened,
\* ends the run in failure before any chunk: nothing is written to the store,
\* the cleaning log is neither created nor appended to, and for a bad file no
\* connection is even attempted.
C9_PreconditionFailuresTouchNothing ==
    /\ run[1].args.input \in {"missing", "empty"} =>
          /\ run[1].pc \in {"Idle", "ValidatingInput", "Failed"}
          /\ audit[1].connect_attempts = 0
          /\ Untouched(1)
    /\ audit[1].connect_failed => run[1].pc = "Failed" /\ Untouched(1)

\* the connection was refused and the log file still does not exist
C9_Witness ==
    /\ run[1].pc = "Failed"
    /\ run[1].failure = "connect"
    /\ ~cleaning_log.exists

-----------------------------------------------------------------------------
\* C10: a run whose chunk size or batch size is not a positive integer reads no
\* chunk, creates no vendor, inserts no trip and does not end with the report.
C10_BadSizesStopBeforeFirstChunk ==
    (run[1].args.chunksize <= 0 \/ run[1].args.batch_size <= 0) =>
        /\ run[1].chunk_index = 0
        /\ vendors = audit[1].vendors0
        /\ trips = {}
        /\ run[1].pc # "Closed"

-----------------------------------------------------------------------------
\* the state of the run's state machine a position of main belongs to
Phase(pc) ==
    IF pc \in {"Idle", "ValidatingInput", "ConnectingStore", "Reporting", "Closed", "Failed"}
    THEN pc ELSE "Streaming"

PhaseRank(ph) ==
    CASE ph = "Idle" -> 0
      [] ph = "ValidatingInput" -> 1
      [] ph = "ConnectingStore" -> 2
      [] ph = "Streaming" -> 3
      [] ph = "Reporting" -> 4
      [] ph = "Closed" -> 5
      [] ph = "Failed" -> 6

\* C11: a run moves through Idle, Validating-Input, Connecting-Store, Streaming,
\* Reporting, Closed in this order, one state at a time and never back; Failed
\* is entered only from Validating-Input, Connecting-Store or Streaming, so a
\* run that has left the chunk loop for Reporting ends in Closed; Closed and
\* Failed are final.
C11_OrderedPhasesFailOnlyBeforeReport ==
    [][\A r \in {1} :
          LET p == Phase(run[r].pc)
              q == Phase(run'[r].pc)
          IN  /\ p \in {"Closed", "Failed"} => run'[r] = run[r]
              /\ p # q =>
                    \/ q # "Failed" /\ PhaseRank(q) = PhaseRank(p) + 1
                    \/ q = "Failed" /\ p \in {"ValidatingInput", "ConnectingStore", "Streaming"}
      ]_vars

-----------------------------------------------------------------------------
\* the rows of the current chunk that violate a rule, in input order
RejectedPositions(rr) ==
    { i \in 1..Len(rr.df) : Violations(rr.df[i], TooFastIfFinite(rr.df[i])) # {} }

FirstRejectedReasons(rr) ==
    IF RejectedPositions(rr) = {} THEN {}
    ELSE LET i == CHOOSE j \in RejectedPositions(rr) : \A k \in RejectedPositions(rr) : j <= k
         IN  Violations(rr.df[i], TooFastIfFinite(rr.df[i]))

\* a chunk has been read and its log line is not written yet
InChunk(rr) ==
    \/ rr.pc \in {"RowLoop", "VendorSelect", "VendorInsert", "ExecuteMany", "Commit", "LogAppend"}
    \/ rr.pc = "Failed" /\ rr.failure \in {"KeyError", "vendor_select", "vendor_insert",
                                            "batch_size", "executemany", "commit"}

ChunksCompleted(rr) == IF InChunk(rr) THEN rr.chunk_index - 1 ELSE rr.chunk_index

\* the lines this run has appended to the cleaning log
MyLogRows(r) ==
    SubSeq(cleaning_log.rows, Len(audit[r].log0.rows) + 1, Len(cleaning_log.rows))

\* C12: the run has appended one log line per completely processed chunk, the
\* k-th carrying chunk_index k; the line of a chunk holds the number of its
\* rejected rows and the reason set of the first of them (empty when there is
\* none); the lines the log held before stay as they were, in place.
C12_OneLogEntryPerChunk ==
    /\ [](/\ Len(MyLogRows(1)) = ChunksCompleted(run[1])
          /\ \A k \in 1..Len(MyLogRows(1)) : MyLogRows(1)[k].chunk_index = k
          /\ SubSeq(cleaning_log.rows, 1, Len(audit[1].log0.rows)) = audit[1].log0.rows)
    /\ [][/\ Len(cleaning_log'.rows) >= Len(cleaning_log.rows)
          /\ SubSeq(cleaning_log'.rows, 1, Len(cleaning_log.rows)) = cleaning_log.rows
          /\ cleaning_log'.rows # cleaning_log.rows =>
                /\ run[1].pc = "LogAppend"
                /\ Len(cleaning_log'.rows) = Len(cleaning_log.rows) + 1
                /\ LET e == cleaning_log'.rows[Len(cleaning_log'.rows)]
                   IN  /\ e.chunk_index = run[1].chunk_index
                       /\ e.excluded_count = Cardinality(RejectedPositions(run[1]))
                       /\ ToSet(e.sample_reason) = FirstRejectedReasons(run[1])
          /\ (run[1].pc = "LogAppend" /\ run'[1] # run[1]) =>
                cleaning_log'.rows # cleaning_log.rows]_vars

\* a log that held a line before the run; the first chunk had two rejected rows
\* with different reasons, the second chunk none
C12_Witness ==
    /\ audit[1].log0.rows = <<PriorLogRow>>
    /\ run[1].pc = "Closed"
    /\ Len(MyLogRows(1)) = 2
    /\ MyLogRows(1)[1].excluded_count = 2
    /\ MyLogRows(1)[1].sample_reason = <<"invalid_pickup_coord">>
    /\ MyLogRows(1)[2].excluded_count = 0
    /\ MyLogRows(1)[2].sample_reason = <<>>

-----------------------------------------------------------------------------
RECURSIVE Flatten(_)
Flatten(ss) == IF ss = <<>> THEN <<>> ELSE Head(ss) \o Flatten(Tail(ss))

\* the accepted rows of the current chunk as trips rows, in input order
AcceptedTrips(r) ==
    [k \in 1..Len(run[r].clean_rows) |-> TripRow(r, run[r], run[r].clean_rows[k])]

CeilDiv(n, b) == (n + b - 1) \div b

\* C13: with a batch size b >= 1 and no store failure, insert_trips_mysql on n
\* accepted rows has, when it returns, committed ceil(n/b) groups whose
\* concatenation is the list of accepted rows (each row once, in input order),
\* every group but the last of b rows and the last of 1..b rows, with one
\* executemany and one commit per group, and it returns n; for n = 0 it sends
\* no statement and returns 0.  While it runs, a commit follows every group.
C13_GroupsOfBatchSizeInOrder ==
    \A r \in {1} :
        LET rr == run[r]
            n  == Len(rr.clean_rows)
            b  == rr.args.batch_size
            g  == audit[r].groups
        IN  b >= 1 =>
              /\ rr.pc = "ExecuteMany" => audit[r].executes = Len(g)
              /\ rr.pc = "Commit" => audit[r].executes = Len(g) + 1
              /\ rr.pc \in {"ExecuteMany", "Commit"} =>
                    /\ Flatten(g) = SubSeq(AcceptedTrips(r), 1, rr.batch_i)
                    /\ \A k \in 1..Len(g) : Len(g[k]) = b
              /\ Loaded(rr) =>
                    /\ Flatten(g) = AcceptedTrips(r)
                    /\ Len(g) = CeilDiv(n, b)
                    /\ audit[r].executes = Len(g)
                    /\ \A k \in 1..Len(g) :
                          IF k < Len(g) THEN Len(g[k]) = b
                          ELSE Len(g[k]) >= 1 /\ Len(g[k]) <= b
                    /\ rr.inserted = n
                    /\ \A k \in 1..n : AcceptedTrips(r)[k] \in trips
                    /\ Cardinality({ t \in MyTrips(r) : t.chunk = rr.chunk_index }) = n
                    /\ rr.txn = {}

\* three accepted rows loaded with batch size 2: a full group and a short one
C13_Witness ==
    /\ Loaded(run[1])
    /\ run[1].args.batch_size = 2
    /\ Len(run[1].clean_rows) = 3
    /\ Len(audit[1].groups) = 2
    /\ Len(audit[1].groups[1]) = 2
    /\ Len(audit[1].groups[2]) = 1
    /\ run[1].inserted = 3

-----------------------------------------------------------------------------
\* the rows of the current chunk are being validated and their vendors resolved
Resolving(rr) ==
    \/ rr.pc = "RowLoop" /\ rr.rowi <= Len(rr.df)
    \/ rr.pc \in {"VendorSelect", "VendorInsert"}

LoadingFacts(rr) == rr.pc \in {"ExecuteMany", "Commit"}

ChunkTrips(r, n) == { t \in MyTrips(r) \cup run[r].txn : t.chunk = n }

\* C14: chunks follow one another.  A chunk is read only at the loop head, as
\* the next in number, when no fact group is pending, every group sent for the
\* chunk before is committed and that chunk's log line is the last of the log.
\* Within a chunk no fact row is sent while rows are resolved, the vendors
\* table does not change once the load has begun, and the log line of the
\* chunk is written after the load, with nothing left uncommitted.
C14_ChunksStrictlySequential ==
    /\ [](\A r \in {1} :
            LET rr == run[r] IN
            /\ rr.pc = "Streaming" =>
                  /\ rr.txn = {}
                  /\ Len(MyLogRows(r)) = rr.chunk_index
                  /\ rr.chunk_index >= 1 =>
                        /\ \A t \in ToSet(Flatten(audit[r].groups)) : t \in trips
                        /\ cleaning_log.rows[Len(cleaning_log.rows)].chunk_index
                              = rr.chunk_index
            /\ Resolving(rr) => ChunkTrips(r, rr.chunk_index) = {}
            /\ (Resolving(rr) \/ LoadingFacts(rr)) => Len(MyLogRows(r)) = rr.chunk_index - 1
            /\ \A t \in MyTrips(r) \cup rr.txn : t.chunk <= rr.chunk_index)
    /\ [][\A r \in {1} :
            /\ run'[r].chunk_index # run[r].chunk_index =>
                  /\ run[r].pc = "Streaming"
                  /\ run'[r].chunk_index = run[r].chunk_index + 1
            /\ (LoadingFacts(run[r]) \/ Loaded(run[r])) => vendors' = vendors
            /\ cleaning_log'.rows # cleaning_log.rows =>
                  Loaded(run[r]) /\ run[r].txn = {}
            /\ trips' # trips => LoadingFacts(run[r])]_vars

\* the second chunk has just been read: the first one created a vendor, was
\* loaded in two groups and has its line in the log
C14_Witness ==
    /\ run[1].pc = "RowLoop"
    /\ run[1].chunk_index = 2
    /\ run[1].rowi = 1
    /\ Cardinality(ChunkTrips(1, 1)) = 2
    /\ Len(audit[1].groups) = 2
    /\ Len(MyLogRows(1)) = 1
    /\ \E c \in VendorCodes : audit[1].inserts[c] = 1

-----------------------------------------------------------------------------
\* the chunk of the probe after detect_and_assign_columns
Normalized == detect_and_assign_columns(probe.schema, probe.chunk)

CoordsDefined(row) ==
    /\ ~isna(row.pickup_lat) /\ ~isna(row.pickup_lon)
    /\ ~isna(row.dropoff_lat) /\ ~isna(row.dropoff_lon)

\* C15: every record whose distance is undefined after normalisation gets the
\* haversine distance of its own coordinates when they are all defined,
\* whatever the other records of the chunk carry, and stays without a
\* distance only when a coordinate is undefined.
C15_DistanceDerivedPerRecord ==
    probe.stage \in {"derived", "validated"} =>
        \A i \in 1..Len(probe.df) :
            isna(Normalized[i].trip_distance_km) =>
                /\ CoordsDefined(probe.df[i]) =>
                       probe.df[i].trip_distance_km
                           = haversine_distance(probe.df[i].pickup_lat, probe.df[i].pickup_lon,
                                                probe.df[i].dropoff_lat, probe.df[i].dropoff_lon)
                /\ isna(probe.df[i].trip_distance_km) => ~CoordsDefined(probe.df[i])

-----------------------------------------------------------------------------
OrZero(x) == IF isna(x) THEN 0 ELSE x

BaseFare == (5 * FareScale) \div 2

\* 2.50 + km * 2.50 + (s / 60) * 0.40 with 0 for an undefined term, floor 2.50
FareWithZeroTerms(row) ==
    Max(BaseFare,
        BaseFare + ((5 * FareScale) \div (2 * DistScale)) * OrZero(row.trip_distance_km)
                 + ((2 * FareScale) \div 300) * OrZero(row.trip_duration_seconds))

\* C16: every record whose fare is undefined after normalisation carries a
\* derived fare that is defined, at least 2.50, and equal to the estimate in
\* which an undefined distance or duration counts as 0.
C16_EstimatedFareAlwaysDefined ==
    probe.stage \in {"derived", "validated"} =>
        \A i \in 1..Len(probe.df) :
            isna(Normalized[i].fare_amount) =>
                /\ ~isna(probe.df[i].fare_amount)
                /\ probe.df[i].fare_amount >= BaseFare
                /\ probe.df[i].fare_amount = FareWithZeroTerms(probe.df[i])

-----------------------------------------------------------------------------
NoSpeedInputs(row) ==
    \/ isna(row.trip_duration_seconds) \/ row.trip_duration_seconds <= 0
    \/ isna(row.trip_distance_km) \/ row.trip_distance_km <= 0

\* C17: a derived record whose duration is undefined or <= 0, or whose
\* distance is undefined or <= 0, has no speed; a validated record whose
\* duration is <= 0 carries invalid_duration and not unrealistic_speed.
C17_NoSpeedWithoutPositiveInputs ==
    probe.stage \in {"derived", "validated"} =>
        \A i \in 1..Len(probe.df) :
            /\ NoSpeedInputs(probe.df[i]) => probe.df[i].trip_speed_kmh = SpeedNaN
            /\ (probe.stage = "validated" /\ probe.df[i].trip_duration_seconds <= 0) =>
                  /\ "invalid_duration" \in ToSet(probe.out[i].reasons)
                  /\ "unrealistic_speed" \notin ToSet(probe.out[i].reasons)

\* 300 km in 0 seconds: rejected for its duration, not for its speed
C17_Witness ==
    /\ probe.stage = "validated"
    /\ probe.df[1].trip_duration_seconds = 0
    /\ probe.df[1].trip_distance_km = 300 * DistScale
    /\ probe.df[1].trip_speed_kmh = SpeedNaN
    /\ probe.out[1].reasons = <<"invalid_duration">>

-----------------------------------------------------------------------------
\* positions of the chunk whose raw distance is defined
DefinedDistances(chunk) == { i \in 1..Len(chunk) : ~isna(chunk[i].trip_distance) }

\* the k-th smallest of the defined raw distances, by counting
OrderStat(chunk, k) ==
    LET D == DefinedDistances(chunk)
    IN  CHOOSE v \in { chunk[i].trip_distance : i \in D } :
            /\ Cardinality({ i \in D : chunk[i].trip_distance < v }) < k
            /\ Cardinality({ i \in D : chunk[i].trip_distance <= v }) >= k

RECURSIVE SumOver(_, _)
SumOver(chunk, D) ==
    IF D = {} THEN 0
    ELSE LET i == CHOOSE j \in D : TRUE
         IN  chunk[i].trip_distance + SumOver(chunk, D \ {i})

MeanUnder200(chunk) ==
    LET D == DefinedDistances(chunk)
    IN  SumOver(chunk, D) < 200 * DistScale * Cardinality(D)

MedianUnder30(chunk) ==
    LET n == Cardinality(DefinedDistances(chunk))
    IN  OrderStat(chunk, (n + 1) \div 2) + OrderStat(chunk, (n \div 2) + 1)
            < 2 * 30 * DistScale

\* C18: in a chunk with a bound distance column and at least one defined
\* distance, either every defined distance is multiplied by 1.60934 (when
\* their mean is under 200 and their median under 30) or none is; undefined
\* distances stay undefined.  The chunk alone decides.
C18_MilesDecisionPerChunk ==
    (probe.stage \in {"derived", "validated"} /\ probe.schema.dist
        /\ DefinedDistances(probe.chunk) # {}) =>
        LET D == DefinedDistances(probe.chunk) IN
        /\ IF MeanUnder200(probe.chunk) /\ MedianUnder30(probe.chunk)
           THEN \A i \in D :
                   probe.df[i].trip_distance_km = MilesToKm(probe.chunk[i].trip_distance)
           ELSE \A i \in D :
                   probe.df[i].trip_distance_km = probe.chunk[i].trip_distance
        /\ \A i \in 1..Len(probe.chunk) \ D : isna(probe.df[i].trip_distance_km)

\* a chunk of 5, 500 and 5 miles (mean 170, median 5): all three converted,
\* the 500 as well
C18_Witness ==
    /\ probe.stage = "derived"
    /\ probe.schema.dist
    /\ Len(probe.chunk) = 3
    /\ probe.chunk[1].trip_distance = 5 * DistScale
    /\ probe.chunk[2].trip_distance = 500 * DistScale
    /\ probe.chunk[3].trip_distance = 5 * DistScale
    /\ probe.df[1].trip_distance_km = 804670
    /\ probe.df[2].trip_distance_km = 80467000
    /\ probe.df[3].trip_distance_km = 804670

-----------------------------------------------------------------------------
BetweenChunks(rr) == rr.pc \in {"Streaming", "Reporting", "Closed"}

\* rows of the current chunk the row loop has dealt with
RowsDone(rr) ==
    IF rr.pc = "RowLoop" THEN rr.rowi - 1
    ELSE IF rr.pc \in {"VendorSelect", "VendorInsert"} THEN rr.rowi - 1
    ELSE Len(rr.df)

\* C19: with chunk size >= 1 and batch size >= 1, every row the row loop has
\* dealt with is in exactly one of the accepted and the rejected list (no row
\* twice, none lost), and between chunks rows read = rows inserted + rows
\* rejected, rows inserted being the number of trips rows the run has
\* committed.
C19_RowConservation ==
    \A r \in {1} :
        LET rr == run[r] IN
        (rr.args.chunksize >= 1 /\ rr.args.batch_size >= 1) =>
            /\ (rr.pc \in {"RowLoop", "VendorSelect", "VendorInsert", "ExecuteMany",
                            "Commit", "LogAppend"}) =>
                  /\ Len(rr.clean_rows) + Len(rr.excluded_rows) = RowsDone(rr)
                  /\ \A j, k \in 1..Len(rr.clean_rows) :
                        j # k => rr.clean_rows[j].pos # rr.clean_rows[k].pos
                  /\ Cardinality({ i \in 1..RowsDone(rr) :
                                     \E k \in 1..Len(rr.clean_rows) : rr.clean_rows[k].pos = i })
                        = Len(rr.clean_rows)
                  /\ rr.total_in = rr.total_clean + rr.total_excluded + Len(rr.df)
                  /\ rr.total_clean = Cardinality({ t \in MyTrips(r) : t.chunk < rr.chunk_index })
            /\ BetweenChunks(rr) =>
                  /\ rr.total_in = rr.total_clean + rr.total_excluded
                  /\ rr.total_clean = Cardinality(MyTrips(r))

\* a file of three rows in two chunks: two rows loaded, one rejected
C19_Witness ==
    /\ run[1].pc = "Closed"
    /\ run[1].chunk_index = 2
    /\ run[1].total_in = 3
    /\ run[1].total_clean = 2
    /\ run[1].total_excluded = 1
    /\ Cardinality(MyTrips(1)) = 2

====
